---- MODULE Spec2Model ----
(***************************************************************************)
(* Model of app/domain/questions.py: the read-tracking ParamsDict, the     *)
(* dual-mode Params constructor with its ExampleParams subtype, the        *)
(* RegistryDict populated by Question.__init_subclass__, and Example.      *)
(*                                                                         *)
(* Python strings that are concatenated (topic values, class names,        *)
(* registry keys) are sequences of one-character strings, so that the      *)
(* f-string "{topic.value}_{name}" is a real concatenation.  Parameter     *)
(* names and exception names are only compared, and are TLA+ strings.      *)
(***************************************************************************)
EXTENDS Integers, Sequences, FiniteSets, TLC

VARIABLES
    classes,    \* the Question subclasses that exist, in definition order; a class is its index
    registry,   \* Question._registry.data: registry key -> class (index into classes)
    regOut,     \* the last registry operation: its arguments, its outcome, the registry before it
    call,       \* the last constructor call: which constructor, with which argument
    inst,       \* the ExampleParams object of that call when it returned or raised
    quest,      \* the Example object of that call when it returned or raised
    view,       \* a ParamsDict object: [params, accessed]
    viewOut     \* the last ParamsDict operation: its argument, its outcome, the view before it

vars == <<classes, registry, regOut, call, inst, quest, view, viewOut>>

regVars == <<classes, registry, regOut>>
ctorVars == <<call, inst, quest>>
viewVars == <<view, viewOut>>

----------------------------------------------------------------------------
(* Bounds *)

\* Question subclasses defined after the module itself has been imported
MaxDefs == 2
\* supplied integer values range over -MaxAbs..MaxAbs, plus the values in SampleInts
MaxAbs == 3

----------------------------------------------------------------------------
(* Exceptions (app.domain.exceptions and builtins), by name *)

NoError == "none"
QuestionError == "QuestionError"
QuestionMissingParams == "QuestionMissingParams"
QuestionIrrelevantParams == "QuestionIrrelevantParams"
QuestionParamError == "QuestionParamError"
ValueError == "ValueError"
TypeError == "TypeError"
KeyError == "KeyError"
ZeroDivisionError == "ZeroDivisionError"

----------------------------------------------------------------------------
(* Topic and the registry key *)

Topic == {"CALCULUS", "ALGEBRA", "LINEAR_ALGEBRA", "NUMBER_THEORY"}

TopicValue(t) ==
    CASE t = "CALCULUS" -> <<"c","a","l","c","u","l","u","s">>
      [] t = "ALGEBRA" -> <<"a","l","g","e","b","r","a">>
      [] t = "LINEAR_ALGEBRA" -> <<"l","i","n","e","a","r","_","a","l","g","e","b","r","a">>
      [] t = "NUMBER_THEORY" -> <<"n","u","m","b","e","r","_","t","h","e","o","r","y">>

\* what a class statement can leave in cls.topic: a Topic member, nothing at
\* all (Question only annotates topic), or a value that is no Topic member
NoTopicAttr == "<no attribute>"
NotATopic == "<str>"
TopicAttrs == Topic \cup {NoTopicAttr, NotATopic}

ExampleName == <<"E","x","a","m","p","l","e">>
ClassNames == {ExampleName, <<"Q">>}

\* a faulty variant: the key leaves the topic out
RegistryKeyNameOnly(topic, name) == name

\* f"{topic.value}_{name}"
RegistryKey(topic, name) == TopicValue(topic) \o <<"_">> \o name

----------------------------------------------------------------------------
(* RegistryDict and Question: registration at class definition, lookup *)

AllKeys == {RegistryKey(t, n) : t \in Topic, n \in ClassNames}

\* A class object as code can see it: __name__, the topic attribute, and
\* __abstractmethods__ (hasAbs: whether the class's own __dict__ holds it).
ClassObj(name, topicAttr, hasAbs, abs) ==
    [name |-> name, topic |-> topicAttr, hasAbs |-> hasAbs, abs |-> abs]

\* class Example(Question), defined when the module is imported
ExampleClass == ClassObj(ExampleName, "NUMBER_THEORY", TRUE, {})

\* a faulty variant: the overwrite check is missing
RegistryDict_setitem_overwrite(data, key, question, qid) ==
    IF key # RegistryKey(question.topic, question.name)
    THEN [err |-> ValueError, data |-> data]
    ELSE [err |-> NoError,
          data |-> [k \in DOMAIN data \cup {key} |-> IF k = key THEN qid ELSE data[k]]]

\* RegistryDict.__setitem__(key, question); qid is the identity of question
RegistryDict_setitem(data, key, question, qid) ==
    LET expected_key == RegistryKey(question.topic, question.name) IN
    IF key # expected_key
    THEN [err |-> ValueError, data |-> data]
    ELSE IF key \in DOMAIN data
    THEN [err |-> QuestionError, data |-> data]
    ELSE [err |-> NoError,
          data |-> [k \in DOMAIN data \cup {key} |-> IF k = key THEN qid ELSE data[k]]]

\* a faulty variant: a lookup that answers with the class defined first
RegistryDict_getitem_first(data, key) ==
    IF key \in DOMAIN data
    THEN [err |-> NoError, result |-> 1]
    ELSE [err |-> KeyError, result |-> 0]

\* UserDict.__getitem__, which RegistryDict inherits
RegistryDict_getitem(data, key) ==
    IF key \in DOMAIN data
    THEN [err |-> NoError, result |-> data[key]]
    ELSE [err |-> KeyError, result |-> 0]

\* "not hasattr(cls, '__abstractmethods__') or not cls.__abstractmethods__"
TreatedAsConcrete(cls) == ~cls.hasAbs \/ cls.abs = {}

\* Question.__init_subclass__(cls); qid is the identity of cls
Question_init_subclass(cls, qid, data) ==
    IF TreatedAsConcrete(cls)
    THEN IF cls.topic = NoTopicAttr
         THEN [err |-> TypeError, data |-> data]
         ELSE IF cls.topic \notin Topic
         THEN [err |-> TypeError, data |-> data]
         ELSE RegistryDict_setitem(data, RegistryKey(cls.topic, cls.name), cls, qid)
    ELSE [err |-> NoError, data |-> data]

\* Question.get_question_class(topic, name)
get_question_class(data, topic, name) ==
    RegistryDict_getitem(data, RegistryKey(topic, name))

NoOp == [op |-> "none", name |-> <<>>, topic |-> NoTopicAttr, abstract |-> FALSE,
         key |-> <<>>, err |-> NoError, result |-> 0, before |-> <<>>]

InitRegistryPart ==
    /\ classes = <<ExampleClass>>
    /\ registry = [k \in {RegistryKey("NUMBER_THEORY", ExampleName)} |-> 1]
    /\ regOut = NoOp

\* The class statement "class <name>(Question): ..." and what it does to the
\* registry.  type.__new__ runs __init_subclass__ before ABCMeta.__new__
\* stores __abstractmethods__ on the new class, so the hook sees a class
\* whose own __dict__ has no __abstractmethods__ yet.  A hook that raises
\* aborts the class statement: no class object is left behind.
DefineSubclass(name, topicAttr, abstract) ==
    /\ Len(classes) <= MaxDefs
    /\ LET qid == Len(classes) + 1
           atHook == ClassObj(name, topicAttr, FALSE, {})
           final == ClassObj(name, topicAttr, TRUE,
                             IF abstract THEN {"_internal_setup"} ELSE {})
           r == Question_init_subclass(atHook, qid, registry)
       IN /\ registry' = r.data
          /\ classes' = IF r.err = NoError THEN Append(classes, final) ELSE classes
          /\ regOut' = [op |-> "define", name |-> name, topic |-> topicAttr,
                        abstract |-> abstract,
                        key |-> IF topicAttr \in Topic
                                THEN RegistryKey(topicAttr, name) ELSE <<>>,
                        err |-> r.err,
                        result |-> IF r.err = NoError THEN qid ELSE 0,
                        before |-> registry]
    /\ UNCHANGED <<ctorVars, viewVars>>

\* Question._registry[key] = classes[qid], written by a caller
SetItemDirect(key, qid) ==
    /\ LET r == RegistryDict_setitem(registry, key, classes[qid], qid)
       IN /\ registry' = r.data
          /\ regOut' = [op |-> "setitem", name |-> classes[qid].name,
                        topic |-> classes[qid].topic,
                        abstract |-> classes[qid].abs # {},
                        key |-> key, err |-> r.err, result |-> 0,
                        before |-> registry]
    /\ UNCHANGED <<classes, ctorVars, viewVars>>

\* Question.get_question_class(topic, name), called by a caller
Lookup(topic, name) ==
    /\ LET r == get_question_class(registry, topic, name)
       IN regOut' = [op |-> "lookup", name |-> name, topic |-> topic,
                     abstract |-> FALSE, key |-> RegistryKey(topic, name),
                     err |-> r.err, result |-> r.result, before |-> registry]
    /\ UNCHANGED <<classes, registry, ctorVars, viewVars>>

----------------------------------------------------------------------------
(* Parameter mappings *)

\* the defaults ExampleParams._generate assigns
GenM == 75
GenN == 12

\* a supplied value: an int, or a value of another type (a str)
IntVal(i) == [t |-> "int", v |-> i]
StrVal == [t |-> "str", v |-> 0]
NoValue == [t |-> "none", v |-> 0]

SampleInts == {9, GenM, GenN}
Values == {IntVal(i) : i \in (-MaxAbs..MaxAbs) \cup SampleInts} \cup {StrVal}

ParamKeys == {"m", "n", "extra"}
Mappings == UNION {[K -> Values] : K \in SUBSET ParamKeys}

\* the argument "params: dict | None"
NoneArg == [none |-> TRUE, d |-> <<>>]
DictArg(d) == [none |-> FALSE, d |-> d]
Args == {NoneArg} \cup {DictArg(d) : d \in Mappings}

\* "if params:" - None and the empty dict are false
Truthy(arg) == ~arg.none /\ DOMAIN arg.d # {}

\* self.<attr> = value, on an instance given as its attribute dictionary
SetAttr(self, attr, value) ==
    [a \in DOMAIN self \cup {attr} |-> IF a = attr THEN value ELSE self[a]]

----------------------------------------------------------------------------
(* ParamsDict *)

\* ParamsDict.__init__(params)
ParamsDict_init(params) == [params |-> params, accessed |-> {}]

\* a faulty variant: a get that marks the key before looking it up
ParamsDict_get_marks_first(w, key) ==
    IF key \notin DOMAIN w.params
    THEN [err |-> QuestionMissingParams,
          w |-> [w EXCEPT !.accessed = @ \cup {key}], value |-> NoValue]
    ELSE [err |-> NoError, w |-> [w EXCEPT !.accessed = @ \cup {key}],
          value |-> w.params[key]]

\* ParamsDict.get(key)
ParamsDict_get(w, key) ==
    IF key \notin DOMAIN w.params
    THEN [err |-> QuestionMissingParams, w |-> w, value |-> NoValue]
    ELSE [err |-> NoError, w |-> [w EXCEPT !.accessed = @ \cup {key}],
          value |-> w.params[key]]

\* ParamsDict.get_unused()
ParamsDict_get_unused(w) == DOMAIN w.params \ w.accessed

----------------------------------------------------------------------------
(* Params, ExampleParams, Example *)

\* app.domain.validators.validate_int(value)
validate_int(value) ==
    IF value.t = "int"
    THEN [err |-> NoError, value |-> value]
    ELSE [err |-> QuestionParamError, value |-> value]

\* Python's a % b for b # 0: the result has the sign of b
PyMod(a, b) == IF b > 0 THEN a % b ELSE -((-a) % (-b))

\* "if not (n % self.m != 0) and (self.m % n == 0): raise QuestionParamError",
\* evaluated left to right: "not" binds tighter than "and", and "and" does
\* not evaluate its right operand when the left one is false
RelationalCheck(m, n) ==
    IF m = 0 THEN ZeroDivisionError
    ELSE IF ~(~(PyMod(n, m) # 0)) THEN NoError
    ELSE IF n = 0 THEN ZeroDivisionError
    ELSE IF PyMod(m, n) = 0 THEN QuestionParamError
    ELSE NoError

\* ExampleParams._validate(params): the instance and the view when it
\* returns or raises
ExampleParams_validate(self, w) ==
    LET g1 == ParamsDict_get(w, "m") IN
    IF g1.err # NoError THEN [err |-> g1.err, self |-> self, w |-> g1.w] ELSE
    LET v1 == validate_int(g1.value) IN
    IF v1.err # NoError THEN [err |-> v1.err, self |-> self, w |-> g1.w] ELSE
    LET self1 == SetAttr(self, "m", v1.value)
        g2 == ParamsDict_get(g1.w, "n") IN
    IF g2.err # NoError THEN [err |-> g2.err, self |-> self1, w |-> g2.w] ELSE
    LET v2 == validate_int(g2.value) IN
    IF v2.err # NoError THEN [err |-> v2.err, self |-> self1, w |-> g2.w] ELSE
    LET n == v2.value
        c == RelationalCheck(self1["m"].v, n.v) IN
    IF c # NoError THEN [err |-> c, self |-> self1, w |-> g2.w] ELSE
    [err |-> NoError, self |-> SetAttr(self1, "n", n), w |-> g2.w]

\* a faulty variant: defaults that divide one another
ExampleParams_generate_equal(self) ==
    SetAttr(SetAttr(self, "m", IntVal(GenN)), "n", IntVal(GenN))

\* ExampleParams._generate()
ExampleParams_generate(self) ==
    SetAttr(SetAttr(self, "m", IntVal(GenM)), "n", IntVal(GenN))

\* a faulty variant: unused keys are not rejected
Params_init_ignores_unused(arg) ==
    IF Truthy(arg)
    THEN LET r == ExampleParams_validate(<<>>, ParamsDict_init(arg.d)) IN
         [err |-> r.err, self |-> r.self, mode |-> "validate",
          unused |-> {}, accessed |-> r.w.accessed]
    ELSE [err |-> NoError, self |-> ExampleParams_generate(<<>>),
          mode |-> "generate", unused |-> {}, accessed |-> {}]

\* Params.__init__(params) of an ExampleParams: the instance when it returns
\* or raises, the routine that ran, the keys the view had marked, and the
\* keys an irrelevant-parameters error names
Params_init(arg) ==
    IF Truthy(arg)
    THEN LET wrapped == ParamsDict_init(arg.d)
             r == ExampleParams_validate(<<>>, wrapped)
             unused == ParamsDict_get_unused(r.w)
         IN IF r.err # NoError
            THEN [err |-> r.err, self |-> r.self, mode |-> "validate",
                  unused |-> {}, accessed |-> r.w.accessed]
            ELSE IF unused # {}
            THEN [err |-> QuestionIrrelevantParams, self |-> r.self,
                  mode |-> "validate", unused |-> unused, accessed |-> r.w.accessed]
            ELSE [err |-> NoError, self |-> r.self, mode |-> "validate",
                  unused |-> {}, accessed |-> r.w.accessed]
    ELSE [err |-> NoError, self |-> ExampleParams_generate(<<>>),
          mode |-> "generate", unused |-> {}, accessed |-> {}]

\* a faulty variant: the derived field is the product
Example_internal_setup_product(self, arg) ==
    LET p == Params_init(arg) IN
    IF p.err # NoError THEN [err |-> p.err, self |-> self] ELSE
    [err |-> NoError,
     self |-> SetAttr(SetAttr(self, "params", p.self), "y",
                      p.self["m"].v * p.self["n"].v)]

\* Example._internal_setup(params)
Example_internal_setup(self, arg) ==
    LET p == Params_init(arg) IN
    IF p.err # NoError THEN [err |-> p.err, self |-> self] ELSE
    LET self1 == SetAttr(self, "params", p.self) IN
    [err |-> NoError,
     self |-> SetAttr(self1, "y", self1["params"]["m"].v + self1["params"]["n"].v)]

\* Question.__init__(params)
Question_init(arg) == Example_internal_setup(<<>>, arg)

NoInst == [err |-> NoError, self |-> <<>>, mode |-> "none", unused |-> {}, accessed |-> {}]
NoQuest == [err |-> NoError, self |-> <<>>]

\* no constructor call is under way
InitCtorPart ==
    /\ call = [ctor |-> "none", arg |-> NoneArg]
    /\ inst = NoInst
    /\ quest = NoQuest

\* ExampleParams(call.arg), called by a caller
ConstructExampleParams ==
    /\ call' = [call EXCEPT !.ctor = "ExampleParams"]
    /\ inst' = Params_init(call.arg)
    /\ quest' = NoQuest
    /\ UNCHANGED <<regVars, viewVars>>

\* Example(call.arg), called by a caller; inst is the ExampleParams object
\* that _internal_setup constructed on the way
ConstructExample ==
    /\ call' = [call EXCEPT !.ctor = "Example"]
    /\ inst' = Params_init(call.arg)
    /\ quest' = Question_init(call.arg)
    /\ UNCHANGED <<regVars, viewVars>>

----------------------------------------------------------------------------
(* A ParamsDict under an arbitrary sequence of calls *)

GetKeys == ParamKeys \cup {"other"}

NoViewOp == [op |-> "none", key |-> "", err |-> NoError, value |-> NoValue,
             unused |-> {}, before |-> ParamsDict_init(<<>>)]

InitViewPart ==
    /\ view = ParamsDict_init(<<>>)
    /\ viewOut = NoViewOp

\* view.get(key)
ViewGet(key) ==
    /\ LET r == ParamsDict_get(view, key)
       IN /\ view' = r.w
          /\ viewOut' = [op |-> "get", key |-> key, err |-> r.err, value |-> r.value,
                         unused |-> {}, before |-> view]
    /\ UNCHANGED <<regVars, ctorVars>>

\* view.get_unused()
ViewGetUnused ==
    /\ view' = view
    /\ viewOut' = [op |-> "get_unused", key |-> "", err |-> NoError, value |-> NoValue,
                   unused |-> ParamsDict_get_unused(view), before |-> view]
    /\ UNCHANGED <<regVars, ctorVars>>

----------------------------------------------------------------------------
(* Specifications *)

\* class statements, registry writes and lookups after import
InitRegistry == InitRegistryPart /\ InitCtorPart /\ InitViewPart

NextRegistry ==
    \/ \E name \in ClassNames, topicAttr \in TopicAttrs, abstract \in BOOLEAN :
          DefineSubclass(name, topicAttr, abstract)
    \/ \E key \in AllKeys, qid \in 1..Len(classes) : SetItemDirect(key, qid)
    \/ \E topic \in Topic, name \in ClassNames : Lookup(topic, name)

SpecRegistry == InitRegistry /\ [][NextRegistry]_vars

\* a caller holding any argument, constructing from it any number of times
InitCtor ==
    /\ InitRegistryPart
    /\ InitViewPart
    /\ \E arg \in Args : call = [ctor |-> "none", arg |-> arg]
    /\ inst = NoInst
    /\ quest = NoQuest

NextCtor ==
    \/ ConstructExampleParams
    \/ ConstructExample

SpecCtor == InitCtor /\ [][NextCtor]_vars

\* a ParamsDict over every mapping, under every sequence of calls
InitView ==
    /\ InitRegistryPart
    /\ InitCtorPart
    /\ \E d \in Mappings : view = ParamsDict_init(d)
    /\ viewOut = NoViewOp

NextView ==
    \/ \E key \in GetKeys : ViewGet(key)
    \/ ViewGetUnused

SpecView == InitView /\ [][NextView]_vars

----------------------------------------------------------------------------
(* Properties of the registry, under SpecRegistry *)

DefinedWithTopic == regOut.op = "define" /\ regOut.topic \in Topic

\* some class registered before the last operation has its topic and name
SamePairRegistered ==
    \E k \in DOMAIN regOut.before :
        /\ classes[regOut.before[k]].topic = regOut.topic
        /\ classes[regOut.before[k]].name = regOut.name

\* C1: a class statement whose (topic, class name) key is already in the
\* registry fails with QuestionError and leaves the registry as it was; and
\* no operation replaces or removes an entry: every key of the registry
\* keeps the class registered under it first.
C1_DuplicateRejected ==
    /\ \A k \in DOMAIN regOut.before :
          k \in DOMAIN registry /\ registry[k] = regOut.before[k]
    /\ (DefinedWithTopic /\ regOut.key \in DOMAIN regOut.before)
          => (regOut.err = QuestionError /\ registry = regOut.before)

\* a duplicate class statement was rejected after another class had been added
C1_Witness ==
    /\ DefinedWithTopic
    /\ regOut.key \in DOMAIN regOut.before
    /\ regOut.err = QuestionError
    /\ Len(classes) >= 2

\* C2: the key of (topic, name) equals the key of a class only if that class
\* has this topic and this name; so a class statement with a valid topic is
\* rejected as a duplicate only when a class of the same topic and the same
\* name is registered, and otherwise registers - in particular when only
\* classes of other topics carry its name.
C2_KeysDistinguishTopics ==
    /\ (regOut.op \in {"define", "lookup"} /\ regOut.topic \in Topic)
          => \A i \in 1..Len(classes) :
                RegistryKey(classes[i].topic, classes[i].name) = regOut.key
                   => (classes[i].topic = regOut.topic /\ classes[i].name = regOut.name)
    /\ (DefinedWithTopic /\ ~SamePairRegistered)
          => /\ regOut.err = NoError
             /\ regOut.key \in DOMAIN registry
             /\ registry[regOut.key] = regOut.result
             /\ classes[regOut.result].topic = regOut.topic
             /\ classes[regOut.result].name = regOut.name

\* a class registered although an earlier class of another topic has its name
C2_Witness ==
    /\ DefinedWithTopic
    /\ regOut.err = NoError
    /\ \E i \in 1..Len(classes) :
          /\ i # regOut.result
          /\ classes[i].name = regOut.name
          /\ classes[i].topic # regOut.topic

\* C3: a class statement for an abstract subtype (one that leaves
\* _internal_setup unimplemented) raises nothing, whatever its topic
\* attribute is, and leaves the registry as it was; a class statement for a
\* concrete subtype with a valid Topic that registers adds exactly one entry,
\* its own.
C3_OnlyConcreteRegistered ==
    /\ (regOut.op = "define" /\ regOut.abstract)
          => (regOut.err = NoError /\ registry = regOut.before)
    /\ (DefinedWithTopic /\ ~regOut.abstract /\ regOut.err = NoError)
          => /\ DOMAIN registry = DOMAIN regOut.before \cup {regOut.key}
             /\ regOut.key \notin DOMAIN regOut.before
             /\ registry[regOut.key] = regOut.result

\* C10: get_question_class(topic, name) returns the very class that was
\* defined, and so registered, with this topic and this name; when there is
\* none it fails with KeyError; either way the registry is as it was.
C10_LookupExact ==
    regOut.op = "lookup" =>
        /\ registry = regOut.before
        /\ \A i \in 1..Len(classes) :
              (classes[i].topic = regOut.topic /\ classes[i].name = regOut.name)
                 => (regOut.err = NoError /\ regOut.result = i)
        /\ (~\E i \in 1..Len(classes) :
               classes[i].topic = regOut.topic /\ classes[i].name = regOut.name)
              => (regOut.err = KeyError /\ regOut.result = 0)

\* a lookup returned a class defined after import, with another one registered too
C10_Witness ==
    /\ regOut.op = "lookup"
    /\ regOut.err = NoError
    /\ regOut.result = 2
    /\ Len(classes) = 3

----------------------------------------------------------------------------
(* Properties of construction, under SpecCtor *)

ParameterErrors == {QuestionMissingParams, QuestionIrrelevantParams, QuestionParamError}

Supplied == DOMAIN call.arg.d

\* C4: in validate mode, when ExampleParams._validate fails with a missing
\* parameter or a parameter error (a value of the wrong type, or the check
\* between m and n), neither m nor n is set on the instance.
C4_NoFieldBeforeFailure ==
    (/\ call.ctor = "ExampleParams"
     /\ inst.mode = "validate"
     /\ inst.err \in {QuestionMissingParams, QuestionParamError})
        => DOMAIN inst.self = {}

\* C5: ExampleParams over a non-empty mapping of integer values returns, or
\* raises one of QuestionMissingParams, QuestionIrrelevantParams and
\* QuestionParamError, and nothing else.
C5_OnlyThreeErrorKinds ==
    (/\ call.ctor = "ExampleParams"
     /\ Truthy(call.arg)
     /\ \A k \in Supplied : call.arg.d[k].t = "int")
        => inst.err \in ParameterErrors \cup {NoError}

\* the mapping holds m, n and at least one further key
HasExtraKey == Truthy(call.arg) /\ {"m", "n"} \subseteq Supplied /\ Supplied # {"m", "n"}

\* C6, as stated: ExampleParams over every mapping that holds m, n and at
\* least one further key raises QuestionIrrelevantParams, naming exactly the
\* supplied keys never passed to get.
C6_ExtraKeyAlwaysIrrelevant ==
    (call.ctor = "ExampleParams" /\ HasExtraKey)
        => /\ inst.err = QuestionIrrelevantParams
           /\ inst.unused = Supplied \ inst.accessed

\* C6, amended: ExampleParams over a mapping that holds m, n and at least
\* one further key never returns; when the validation routine accepts m and
\* n (it has assigned both) the error is QuestionIrrelevantParams, naming
\* exactly the supplied keys never passed to get, which are the keys other
\* than m and n; otherwise the error is the validation routine's own.
C6_ExtraKeyIrrelevantAfterValidation ==
    (call.ctor = "ExampleParams" /\ HasExtraKey)
        => /\ inst.err # NoError
           /\ inst.err # QuestionIrrelevantParams => DOMAIN inst.self # {"m", "n"}
           /\ DOMAIN inst.self = {"m", "n"}
                 => /\ inst.err = QuestionIrrelevantParams
                    /\ inst.unused = Supplied \ inst.accessed
                    /\ inst.unused = Supplied \ {"m", "n"}

\* {m: 3, n: 9, extra: 1} was rejected naming {extra}
C6_Witness ==
    /\ call.ctor = "ExampleParams"
    /\ call.arg = DictArg([k \in ParamKeys |->
                              IF k = "m" THEN IntVal(3)
                              ELSE IF k = "n" THEN IntVal(9) ELSE IntVal(1)])
    /\ inst.err = QuestionIrrelevantParams
    /\ inst.unused = {"extra"}

\* the derived field is m + n of the mapping, or of the defaults
ExpectedY ==
    IF Truthy(call.arg) THEN call.arg.d["m"].v + call.arg.d["n"].v ELSE GenM + GenN

ConstructedOrNothing ==
    /\ quest.err \in ParameterErrors => DOMAIN quest.self = {}
    /\ quest.err = NoError
          => /\ DOMAIN quest.self = {"params", "y"}
             /\ DOMAIN quest.self["params"] = {"m", "n"}
             /\ quest.self["y"] = ExpectedY

\* C7, as stated: when Example(mapping) raises a parameter error, neither
\* params nor y is assigned on the instance; when it returns, both are, with
\* y = m + n; and every non-empty mapping missing m or n raises
\* QuestionMissingParams.
C7_NoPartialAndMissing ==
    call.ctor = "Example" =>
        /\ ConstructedOrNothing
        /\ (Truthy(call.arg) /\ ("m" \notin Supplied \/ "n" \notin Supplied))
              => quest.err = QuestionMissingParams

\* C7, amended: as stated, except that the mappings that raise
\* QuestionMissingParams are the non-empty ones missing m, and the ones
\* missing n whose m is an int.
C7_NoPartialAndMissingInOrder ==
    call.ctor = "Example" =>
        /\ ConstructedOrNothing
        /\ (Truthy(call.arg) /\ "m" \notin Supplied)
              => quest.err = QuestionMissingParams
        /\ (Truthy(call.arg) /\ "m" \in Supplied /\ "n" \notin Supplied
               /\ call.arg.d["m"].t = "int")
              => quest.err = QuestionMissingParams

\* Example over a mapping missing n raised QuestionMissingParams with nothing assigned
C7_Witness ==
    /\ call.ctor = "Example"
    /\ Supplied = {"m", "extra"}
    /\ quest.err = QuestionMissingParams
    /\ DOMAIN quest.self = {}

GeneratedFields ==
    [k \in {"m", "n"} |-> IF k = "m" THEN IntVal(GenM) ELSE IntVal(GenN)]

\* C8: ExampleParams over None or the empty mapping returns, having run
\* _generate and no get, with m and n set to the same two values every time;
\* and validate mode accepts exactly these fields: ExampleParams over the
\* mapping of the generated m and n returns with the same fields.
C8_GenerateValid ==
    /\ (call.ctor = "ExampleParams" /\ ~Truthy(call.arg))
          => /\ inst.err = NoError
             /\ inst.mode = "generate"
             /\ inst.accessed = {}
             /\ inst.self = GeneratedFields
             /\ LET back == Params_init(DictArg(inst.self))
                IN back.err = NoError /\ back.mode = "validate" /\ back.self = inst.self
    /\ (call.ctor = "ExampleParams" /\ call.arg = DictArg(GeneratedFields))
          => (inst.err = NoError /\ inst.mode = "validate" /\ inst.self = GeneratedFields)

\* ExampleParams({}) ran in generate mode
C8_Witness ==
    /\ call.ctor = "ExampleParams"
    /\ call.arg = DictArg(<<>>)
    /\ inst.mode = "generate"
    /\ inst.self = GeneratedFields

----------------------------------------------------------------------------
(* Properties of ParamsDict, under SpecView *)

\* C9: the keys a ParamsDict has marked are keys of its mapping; a get of an
\* absent key raises QuestionMissingParams and changes nothing; a get of a
\* present key returns its value and marks this key and no other, also when
\* it was marked already; get_unused returns the keys of the mapping that are
\* not marked and changes nothing; the mapping never changes.
C9_ReadTracking ==
    /\ view.accessed \subseteq DOMAIN view.params
    /\ viewOut.op # "none" => view.params = viewOut.before.params
    /\ (viewOut.op = "get" /\ viewOut.key \notin DOMAIN viewOut.before.params)
          => (viewOut.err = QuestionMissingParams /\ view = viewOut.before)
    /\ (viewOut.op = "get" /\ viewOut.key \in DOMAIN viewOut.before.params)
          => /\ viewOut.err = NoError
             /\ viewOut.value = view.params[viewOut.key]
             /\ view.accessed = viewOut.before.accessed \cup {viewOut.key}
    /\ viewOut.op = "get_unused"
          => /\ viewOut.unused = DOMAIN view.params \ view.accessed
             /\ view = viewOut.before

\* get_unused answered {extra} after m and n had been read out of {m, n, extra}
C9_Witness ==
    /\ viewOut.op = "get_unused"
    /\ DOMAIN view.params = {"m", "n", "extra"}
    /\ view.accessed = {"m", "n"}
    /\ viewOut.unused = {"extra"}

====
